---- MODULE Spec2Model ----
(***************************************************************************)
(* A model of chrisapp.base.ChrisApp: the parameter registry filled by     *)
(* add_argument / validate_argument_options, and the run lifecycle of      *)
(* launch (parse, input-meta capture and substitution, run, output-meta).  *)
(*                                                                         *)
(* Python values are written as strings: None is "None", True is "True",   *)
(* False is "False"; a keyword argument that the caller did not pass is    *)
(* Absent.  Types are written by their __name__.                           *)
(***************************************************************************)
EXTENDS Integers, Sequences, FiniteSets, TLC

VARIABLES
    TYPE,             \* the plugin's TYPE class attribute
    OUTPUT_META_DICT, \* the plugin's OUTPUT_META_DICT class attribute
    _parameters,      \* self._parameters, the parameter registry
    _actions,         \* the arguments the underlying ArgumentParser holds
    call,             \* the add_argument call under way (SpecCall)
    raised,           \* the exception the last add_argument call raised
    succeeded,        \* history: the parameters of the calls that returned
    pc,               \* the position of the caller: in launch, or between method calls
    status,           \* how the process stands: active, returned, exit0, exit2, raised
    failed,           \* the step of launch that failed, "none" so far
    argv,             \* the argument vector of the launch
    options,          \* self.options
    fs,               \* the files: path -> JSON object as key/value pairs
    descriptor,       \* history: the descriptors printed or saved
    eager,            \* history: the eager-exit actions performed
    ran,              \* history: the options run was invoked with
    events,           \* history: the steps of launch performed, in order
    loaded            \* what load_output_meta returned

regVars == <<TYPE, OUTPUT_META_DICT, _parameters, _actions, call, raised, succeeded>>
runVars == <<pc, status, failed, argv, options, fs, descriptor, eager, ran, events, loaded>>
vars == <<regVars, runVars>>

\* ------------------------------------------------------------------------
\* Bounds of the model
\* ------------------------------------------------------------------------
MaxCalls == 2
MaxArgv == 3

\* ------------------------------------------------------------------------
\* Python values
\* ------------------------------------------------------------------------
Absent == "<absent>"
PyNone == "None"
PyTrue == "True"
PyFalse == "False"

Truthy(v) == v \notin {Absent, PyNone, PyFalse, ""}

PyNot(v) == IF Truthy(v) THEN PyFalse ELSE PyTrue

\* str.startswith('--') and str.startswith('-') on the strings of the model
StartsWithDashDash(s) ==
    s \in {"--a", "--b", "--dir", "--flag", "--plugininstances", "--filter", "--extractpaths",
           "--help", "--json", "--savejson", "--inputmeta", "--saveinputmeta",
           "--saveoutputmeta", "--version", "--meta", "--verbosity", "--man", "--bogus"}

StartsWithDash(s) == StartsWithDashDash(s) \/ s \in {"-a", "-b", "-e", "-f", "-h", "-v"}

\* ------------------------------------------------------------------------
\* validate_argument_options
\* ------------------------------------------------------------------------
NoError == "none"
ErrOptionRequired == "KeyError: option required"
ErrContradict == "KeyError: required and optional contradict"
ErrUnsupportedType == "ValueError: Unsupported type"
ErrPathOptional == "ValueError: path or unextpath cannot be optional"
ErrDefaultRequired == "KeyError: A default value is required"
ErrDefaultNone == "ValueError: Default value cannot be None"
ErrNotExposed == "ValueError: not optional must be exposed to the UI"
ErrConflict == "ArgumentError: conflicting option string"
ErrHelpKwargs == "TypeError: unexpected keyword argument"

SupportedTypes == {"str", "int", "float", "bool", "path", "unextpath"}
PathTypes == {"path", "unextpath"}

\* validate_argument_options without the check that a mandatory parameter is
\* exposed to the UI
validate_without_ui_check(kwargs) ==
    IF kwargs.dest = Absent \/ kwargs.optional = Absent \/ kwargs.type = Absent
    THEN ErrOptionRequired
    ELSE IF kwargs.required # Absent /\ kwargs.required = kwargs.optional
    THEN ErrContradict
    ELSE IF kwargs.type \notin SupportedTypes
    THEN ErrUnsupportedType
    ELSE IF Truthy(kwargs.optional) /\ kwargs.type \in PathTypes
    THEN ErrPathOptional
    ELSE IF Truthy(kwargs.optional) /\ kwargs.default = Absent
    THEN ErrDefaultRequired
    ELSE IF Truthy(kwargs.optional) /\ kwargs.default = PyNone
    THEN ErrDefaultNone
    ELSE NoError

\* validate_argument_options accepting None as the default of an optional
validate_without_none_check(kwargs) ==
    IF kwargs.dest = Absent \/ kwargs.optional = Absent \/ kwargs.type = Absent
    THEN ErrOptionRequired
    ELSE IF kwargs.required # Absent /\ kwargs.required = kwargs.optional
    THEN ErrContradict
    ELSE IF kwargs.type \notin SupportedTypes
    THEN ErrUnsupportedType
    ELSE IF Truthy(kwargs.optional) /\ kwargs.type \in PathTypes
    THEN ErrPathOptional
    ELSE IF Truthy(kwargs.optional) /\ kwargs.default = Absent
    THEN ErrDefaultRequired
    ELSE IF ~Truthy(IF kwargs.ui_exposed # Absent THEN kwargs.ui_exposed ELSE PyTrue)
            /\ ~Truthy(kwargs.optional)
    THEN ErrNotExposed
    ELSE NoError

\* validate_argument_options looking at the default before the type of an
\* optional
validate_default_before_path(kwargs) ==
    IF kwargs.dest = Absent \/ kwargs.optional = Absent \/ kwargs.type = Absent
    THEN ErrOptionRequired
    ELSE IF kwargs.required # Absent /\ kwargs.required = kwargs.optional
    THEN ErrContradict
    ELSE IF kwargs.type \notin SupportedTypes
    THEN ErrUnsupportedType
    ELSE IF Truthy(kwargs.optional) /\ kwargs.default = Absent
    THEN ErrDefaultRequired
    ELSE IF Truthy(kwargs.optional) /\ kwargs.default = PyNone
    THEN ErrDefaultNone
    ELSE IF Truthy(kwargs.optional) /\ kwargs.type \in PathTypes
    THEN ErrPathOptional
    ELSE IF ~Truthy(IF kwargs.ui_exposed # Absent THEN kwargs.ui_exposed ELSE PyTrue)
            /\ ~Truthy(kwargs.optional)
    THEN ErrNotExposed
    ELSE NoError

validate_argument_options(kwargs) ==
    IF kwargs.dest = Absent \/ kwargs.optional = Absent \/ kwargs.type = Absent
    THEN ErrOptionRequired
    ELSE IF kwargs.required # Absent /\ kwargs.required = kwargs.optional
    THEN ErrContradict
    ELSE IF kwargs.type \notin SupportedTypes
    THEN ErrUnsupportedType
    ELSE IF Truthy(kwargs.optional) /\ kwargs.type \in PathTypes
    THEN ErrPathOptional
    ELSE IF Truthy(kwargs.optional) /\ kwargs.default = Absent
    THEN ErrDefaultRequired
    ELSE IF Truthy(kwargs.optional) /\ kwargs.default = PyNone
    THEN ErrDefaultNone
    ELSE IF ~Truthy(IF kwargs.ui_exposed # Absent THEN kwargs.ui_exposed ELSE PyTrue)
            /\ ~Truthy(kwargs.optional)
    THEN ErrNotExposed
    ELSE NoError

\* ------------------------------------------------------------------------
\* ChrisApp.__init__: the arguments the constructor gives the parser
\* ------------------------------------------------------------------------
\* an argument of the parser; a positional has no option strings
Opt(strings, dest, action, type, default, required) ==
    [option_strings |-> strings, dest |-> dest, action |-> action,
     type |-> type, default |-> default, required |-> required]

BuiltinActions ==
    << Opt({"-h", "--help"}, "help", "help", Absent, Absent, PyFalse),
       Opt({"--json"}, "json", "JsonAction", Absent, PyFalse, PyFalse),
       Opt({"--savejson"}, "savejson", "SaveJsonAction", "path", PyNone, PyFalse),
       Opt({"--inputmeta"}, "inputmeta", "store", Absent, PyNone, PyFalse),
       Opt({"--saveinputmeta"}, "saveinputmeta", "store_true", Absent, PyFalse, PyFalse),
       Opt({"--saveoutputmeta"}, "saveoutputmeta", "store_true", Absent, PyFalse, PyFalse),
       Opt({"--version"}, "version", "VersionAction", Absent, PyFalse, PyFalse),
       Opt({"--meta"}, "meta", "AppMetaDataAction", Absent, PyFalse, PyFalse),
       Opt({"-v", "--verbosity"}, "verbosity", "store", "str", "0", PyFalse),
       Opt({"--man"}, "man", "ManPageAction", Absent, PyFalse, PyFalse) >>

\* __init__ without lines 258-260: no plugin has an input directory
PositionalActions_outputdir_only(type) ==
    << Opt({}, "outputdir", "store", "str", PyNone, PyTrue) >>

\* 'ds' plugins require an input directory, all plugins an output directory
PositionalActions(type) ==
    IF type = "ds"
    THEN << Opt({}, "inputdir", "store", "str", PyNone, PyTrue),
            Opt({}, "outputdir", "store", "str", PyNone, PyTrue) >>
    ELSE << Opt({}, "outputdir", "store", "str", PyNone, PyTrue) >>

\* ------------------------------------------------------------------------
\* add_argument
\* ------------------------------------------------------------------------
Kwargs(dest, optional, type, default, required, ui_exposed, action) ==
    [dest |-> dest, optional |-> optional, type |-> type, default |-> default,
     required |-> required, ui_exposed |-> ui_exposed, action |-> action, help |-> Absent]

WithHelp(kwargs, text) == [kwargs EXCEPT !.help = text]

RangeOf(s) == {s[i] : i \in 1..Len(s)}

OptionStrings(acts) == UNION {acts[i].option_strings : i \in 1..Len(acts)}

\* the record without lines 335 and 363: no default is stored
Param_without_default(args, kwargs) ==
    LET action == IF kwargs.type = "bool"
                  THEN (IF kwargs.default # Absent /\ Truthy(kwargs.default)
                        THEN "store_false" ELSE "store_true")
                  ELSE "store"
        flag == IF Len(args) > 1 /\ ~StartsWithDashDash(args[1]) THEN args[2] ELSE args[1]
        short_flag == IF Len(args) > 1 /\ StartsWithDashDash(args[1]) THEN args[2] ELSE args[1]
    IN [name |-> kwargs.dest, type |-> kwargs.type, optional |-> kwargs.optional,
        flag |-> flag, short_flag |-> short_flag, action |-> action,
        help |-> IF kwargs.help # Absent THEN kwargs.help ELSE "",
        default |-> PyNone,
        ui_exposed |-> IF kwargs.ui_exposed # Absent THEN kwargs.ui_exposed ELSE PyTrue]

\* the record add_argument stores for the parameter
Param(args, kwargs) ==
    LET default == IF kwargs.default # Absent THEN kwargs.default ELSE PyNone
        action == IF kwargs.type = "bool"
                  THEN (IF Truthy(default) THEN "store_false" ELSE "store_true")
                  ELSE "store"
        flag == IF Len(args) > 1 /\ ~StartsWithDashDash(args[1]) THEN args[2] ELSE args[1]
        short_flag == IF Len(args) > 1 /\ StartsWithDashDash(args[1]) THEN args[2] ELSE args[1]
    IN [name |-> kwargs.dest, type |-> kwargs.type, optional |-> kwargs.optional,
        flag |-> flag, short_flag |-> short_flag, action |-> action,
        help |-> IF kwargs.help # Absent THEN kwargs.help ELSE "",
        default |-> default,
        ui_exposed |-> IF kwargs.ui_exposed # Absent THEN kwargs.ui_exposed ELSE PyTrue]

\* what add_argument hands on to ArgumentParser.add_argument: 'default' and
\* 'type' are removed for a bool, whose store_true / store_false action then
\* defaults to False / True
ParserAction(args, kwargs) ==
    LET p == Param(args, kwargs)
    IN Opt(RangeOf(args), kwargs.dest, p.action,
           IF kwargs.type = "bool" THEN Absent ELSE kwargs.type,
           IF kwargs.type = "bool"
           THEN (IF p.action = "store_true" THEN PyFalse ELSE PyTrue)
           ELSE (IF kwargs.default # Absent THEN kwargs.default ELSE PyNone),
           IF kwargs.required # Absent THEN kwargs.required ELSE PyNot(kwargs.optional))

\* the registry after the call: the parameter is appended as soon as the
\* options are validated, before the parser sees the argument
RegistryAfter(params, args, kwargs) ==
    IF kwargs.action = "help" THEN params
    ELSE IF validate_argument_options(kwargs) # NoError THEN params
    ELSE Append(params, Param(args, kwargs))

\* the exception the call raises, NoError when it returns
AddArgumentError(acts, args, kwargs) ==
    IF kwargs.action # "help" /\ validate_argument_options(kwargs) # NoError
    THEN validate_argument_options(kwargs)
    ELSE IF kwargs.action = "help"
            /\ (kwargs.type # Absent \/ kwargs.optional # Absent
                \/ kwargs.required # Absent \/ kwargs.ui_exposed # Absent)
    THEN ErrHelpKwargs
    ELSE IF RangeOf(args) \cap OptionStrings(acts) # {}
    THEN ErrConflict
    ELSE NoError

\* the parser's arguments after the call
ActionsAfter(acts, args, kwargs) ==
    IF AddArgumentError(acts, args, kwargs) # NoError THEN acts
    ELSE IF kwargs.action = "help"
    THEN Append(acts, Opt(RangeOf(args), "help", "help", Absent, Absent, PyFalse))
    ELSE Append(acts, ParserAction(args, kwargs))

Call(args, kwargs) == [args |-> args, kwargs |-> kwargs]

\* the three parameters __init__ registers for a 'ts' plugin
TsCalls ==
    << Call(<<"--plugininstances">>,
            WithHelp(Kwargs("plugininstances", PyTrue, "str", "", Absent, Absent, Absent),
                     "string representing a comma-separated list of plugin instance ids")),
       Call(<<"-f", "--filter">>,
            WithHelp(Kwargs("filter", PyTrue, "str", "", Absent, Absent, Absent),
                     "regular expression to filter the plugin instances' output path")),
       Call(<<"-e", "--extractpaths">>,
            WithHelp(Kwargs("extractpaths", PyTrue, "bool", PyFalse, Absent, Absent, Absent),
                     "if set then the matched paths from the plugin instances' output path are sent to the remote compute")) >>

RECURSIVE RegistryOf(_, _, _)
RegistryOf(params, calls, n) ==
    IF n = 0 THEN params
    ELSE RegistryAfter(RegistryOf(params, calls, n - 1), calls[n].args, calls[n].kwargs)

RECURSIVE ActionsOf(_, _, _)
ActionsOf(acts, calls, n) ==
    IF n = 0 THEN acts
    ELSE ActionsAfter(ActionsOf(acts, calls, n - 1), calls[n].args, calls[n].kwargs)

InitCalls(type) == IF type = "ts" THEN TsCalls ELSE <<>>

PluginTypes == {"ds", "fs", "ts"}

\* the strings the argument vector of a launch is drawn from
LaunchTokens == {"--json", "--savejson", "--version", "--meta", "--man", "--inputmeta",
                 "--saveinputmeta", "--saveoutputmeta", "d1", "nodir", "f1", ""}

\* the state __init__ leaves before define_parameters runs
NoCall == Call(<<>>, Kwargs(Absent, Absent, Absent, Absent, Absent, Absent, Absent))
NoOptions == [none |-> PyNone]
Missing == << <<"<no such file>", "">> >>
FilePaths == {"f1", "d1/input.meta.json", "d1/output.meta.json",
              "input.meta.json", "output.meta.json"}

Constructed(type, calls) ==
    /\ TYPE = type
    /\ _parameters = RegistryOf(<<>>, InitCalls(type) \o calls, Len(InitCalls(type)) + Len(calls))
    /\ _actions = ActionsOf(BuiltinActions \o PositionalActions(type),
                            InitCalls(type) \o calls, Len(InitCalls(type)) + Len(calls))
    /\ raised = NoError
    /\ succeeded = _parameters

NotLoaded == << <<"<not loaded>", "">> >>

NotLaunched ==
    /\ pc = "start"
    /\ status = "active"
    /\ failed = "none"
    /\ argv = <<>>
    /\ options = NoOptions
    /\ descriptor = <<>>
    /\ eager = <<>>
    /\ ran = <<>>
    /\ events = <<>>
    /\ loaded = NotLoaded

add_argument(args, kwargs) ==
    /\ _parameters' = RegistryAfter(_parameters, args, kwargs)
    /\ _actions' = ActionsAfter(_actions, args, kwargs)
    /\ raised' = AddArgumentError(_actions, args, kwargs)
    /\ succeeded' = IF AddArgumentError(_actions, args, kwargs) = NoError
                       /\ kwargs.action # "help"
                    THEN Append(succeeded, Param(args, kwargs))
                    ELSE succeeded
    /\ UNCHANGED <<TYPE, OUTPUT_META_DICT>>

\* ------------------------------------------------------------------------
\* SpecReg: sequences of add_argument calls on a constructed plugin
\* ------------------------------------------------------------------------
ArgLists == {<<"--a", "-a">>, <<"-b", "--b">>}
Dests == {"a", "b"}
TypeArgs == SupportedTypes \cup {"list"}
Booleans == {PyTrue, PyFalse}
DefaultArgs == {Absent, PyNone, PyFalse}
UiArgs == {Absent, PyFalse}

InitReg ==
    /\ \E type \in PluginTypes : Constructed(type, <<>>)
    /\ OUTPUT_META_DICT = <<>>
    /\ call = NoCall
    /\ NotLaunched
    /\ fs = [p \in FilePaths |-> Missing]

\* define_parameters, or a caller of the constructed app, adds a parameter
AddArgument ==
    /\ raised = NoError
    /\ Len(_parameters) - Len(InitCalls(TYPE)) < MaxCalls
    /\ \E args \in ArgLists, dest \in Dests, optional \in Booleans, type \in TypeArgs,
          default \in DefaultArgs, ui \in UiArgs :
          add_argument(args, Kwargs(dest, optional, type, default, Absent, ui, Absent))
    /\ UNCHANGED <<call, runVars>>

\* the caller handles the exception of the call and goes on
Catch ==
    /\ raised # NoError
    /\ raised' = NoError
    /\ UNCHANGED <<TYPE, OUTPUT_META_DICT, _parameters, _actions, call, succeeded, runVars>>

NextReg == AddArgument \/ Catch

SpecReg == InitReg /\ [][NextReg]_vars

\* ------------------------------------------------------------------------
\* SpecCall: one add_argument call with any combination of options
\* ------------------------------------------------------------------------
AllArgLists == ArgLists \cup {<<"--json">>}
AbsentOr(S) == S \cup {Absent}

InitCall ==
    /\ \E type \in PluginTypes : Constructed(type, <<>>)
    /\ OUTPUT_META_DICT = <<>>
    /\ call \in {Call(args, Kwargs(dest, optional, type, default, required, ui, action)) :
                   args \in AllArgLists, dest \in AbsentOr({"a"}),
                   optional \in AbsentOr(Booleans), type \in AbsentOr(TypeArgs),
                   default \in AbsentOr({PyNone, PyFalse, PyTrue}),
                   required \in AbsentOr(Booleans), ui \in AbsentOr(Booleans),
                   action \in AbsentOr({"help"})}
    /\ NotLaunched
    /\ fs = [p \in FilePaths |-> Missing]

Register ==
    /\ pc = "start"
    /\ add_argument(call.args, call.kwargs)
    /\ pc' = "called"
    /\ UNCHANGED <<call, status, failed, argv, options, fs, descriptor, eager, ran, events, loaded>>

NextCall == Register

SpecCall == InitCall /\ [][NextCall]_vars

\* ------------------------------------------------------------------------
\* parse_args: the underlying ArgumentParser on the arguments of _actions
\* ------------------------------------------------------------------------
\* values that are no strings: the int 1, the tuple ('a',) and the list ['a'],
\* and the JSON number and array they are dumped as
PyInts == {"int:1"}
PyTuples == {"tuple:(a)"}
PyLists == {"list:[a]"}

\* json.dump / json.load of a value
JsonValue(v) == IF v = PyTrue THEN "true" ELSE IF v = PyFalse THEN "false"
                ELSE IF v = PyNone THEN "null"
                ELSE IF v \in PyInts THEN "num:1"
                ELSE IF v \in PyTuples \cup PyLists THEN "arr:[a]" ELSE v

\* json.load keeping a number as the text of the file
PyValue_numbers_as_text(j) ==
    IF j = "true" THEN PyTrue ELSE IF j = "false" THEN PyFalse
    ELSE IF j = "null" THEN PyNone
    ELSE IF j = "num:1" THEN "1"
    ELSE IF j = "arr:[a]" THEN "list:[a]" ELSE j

PyValue(j) == IF j = "true" THEN PyTrue ELSE IF j = "false" THEN PyFalse
              ELSE IF j = "null" THEN PyNone
              ELSE IF j = "num:1" THEN "int:1"
              ELSE IF j = "arr:[a]" THEN "list:[a]" ELSE j

\* json.dump of a key of a dict: an int, a bool or None becomes its text
JsonKey(k) == IF k \in PyInts THEN "1" ELSE JsonValue(k)

\* json.dump and json.load of a dict
JsonDump(d) == [i \in 1..Len(d) |-> <<JsonKey(d[i][1]), JsonValue(d[i][2])>>]
JsonLoad(file) == [i \in 1..Len(file) |-> <<file[i][1], PyValue(file[i][2])>>]

\* True, False and None are no strings
NonStr(v) == v \in {PyTrue, PyFalse, PyNone}

\* the directories and files of the model
DirWritable(dir) == dir \in {"d1", ""}
Join(dir, name) == IF dir = "" THEN name
                   ELSE IF dir = "d1" /\ name = "input.meta.json" THEN "d1/input.meta.json"
                   ELSE IF dir = "d1" /\ name = "output.meta.json" THEN "d1/output.meta.json"
                   ELSE "<nowhere>"
FileExists(files, p) == p \in FilePaths /\ files[p] # Missing
PathExists(files, p) == p = "d1" \/ FileExists(files, p)
Numeric == {"0", "1"}

IsPositional(a) == a.option_strings = {}
ActionOf(acts, t) == acts[CHOOSE i \in 1..Len(acts) : t \in acts[i].option_strings]
IndexOf(acts, t) == CHOOSE i \in 1..Len(acts) : t \in acts[i].option_strings

\* the dests in the order the namespace receives them: that of the first
\* argument with the dest, help has none
RECURSIVE DestOrder(_, _)
DestOrder(acts, n) ==
    IF n = 0 THEN <<>>
    ELSE LET before == DestOrder(acts, n - 1)
         IN IF acts[n].action = "help" \/ acts[n].dest \in RangeOf(before)
            THEN before ELSE Append(before, acts[n].dest)

DefaultOf(acts, d) ==
    acts[CHOOSE i \in 1..Len(acts) :
            /\ acts[i].dest = d /\ acts[i].action # "help"
            /\ \A j \in 1..(i - 1) : acts[j].dest # d \/ acts[j].action = "help"].default

InitNamespace(acts) ==
    [d \in RangeOf(DestOrder(acts, Len(acts))) |-> DefaultOf(acts, d)]

EagerActions == {"JsonAction", "SaveJsonAction", "VersionAction", "AppMetaDataAction",
                 "ManPageAction"}

\* the argument the option at position i takes: the next string of the vector
\* unless that is an option string itself
HasValue(vec, i) == i < Len(vec) /\ ~StartsWithDash(vec[i + 1])

\* the type function of the argument applied to its string
ConvertError(files, type, v) ==
    IF type \in PathTypes /\ NonStr(v) THEN "raise"
    ELSE IF type = "path" /\ ~PathExists(files, v) THEN "exit2"
    ELSE IF type \in {"int", "float"} /\ v \notin Numeric THEN "exit2"
    ELSE "ok"

\* __call__ of an action class without a value: its only effect, then parser.exit()
EagerExit_returns(st, a) == [st EXCEPT !.i = @ + 1, !.fired = a.action]

EagerExit(st, a) == [st EXCEPT !.out = "exit0", !.fired = a.action]

\* one string of the vector consumed
ParseStep(acts, files, vec, st) ==
    LET t == vec[st.i]
    IN IF ~StartsWithDash(t)
       THEN IF st.pos # <<>>
            THEN [st EXCEPT !.i = @ + 1, !.ns[Head(st.pos)] = t, !.pos = Tail(@)]
            ELSE [st EXCEPT !.i = @ + 1, !.extras = Append(@, t)]
       ELSE IF t \notin OptionStrings(acts)
       THEN [st EXCEPT !.i = @ + 1, !.extras = Append(@, t)]
       ELSE LET a == ActionOf(acts, t)
            IN IF a.action = "help"
               THEN [st EXCEPT !.out = "exit0"]
               ELSE IF a.action \in EagerActions \ {"SaveJsonAction"}
               THEN EagerExit(st, a)
               ELSE IF a.action = "store_true"
               THEN [st EXCEPT !.i = @ + 1, !.ns[a.dest] = PyTrue,
                               !.seen = @ \cup {IndexOf(acts, t)}]
               ELSE IF a.action = "store_false"
               THEN [st EXCEPT !.i = @ + 1, !.ns[a.dest] = PyFalse,
                               !.seen = @ \cup {IndexOf(acts, t)}]
               ELSE IF ~HasValue(vec, st.i)
               THEN [st EXCEPT !.out = "exit2"]
               ELSE IF ConvertError(files, a.type, vec[st.i + 1]) # "ok"
               THEN [st EXCEPT !.out = ConvertError(files, a.type, vec[st.i + 1])]
               ELSE IF a.action = "SaveJsonAction"
               THEN IF DirWritable(vec[st.i + 1])
                    THEN [st EXCEPT !.out = "exit0", !.fired = a.action]
                    ELSE [st EXCEPT !.out = "raise", !.fired = a.action]
               ELSE [st EXCEPT !.i = @ + 2, !.ns[a.dest] = vec[st.i + 1],
                               !.seen = @ \cup {IndexOf(acts, t)}]

RECURSIVE ParseScan(_, _, _, _)
ParseScan(acts, files, vec, st) ==
    IF st.out # "scan" \/ st.i > Len(vec) THEN st
    ELSE ParseScan(acts, files, vec, ParseStep(acts, files, vec, st))

PositionalDests(acts) ==
    LET pos == SelectSeq(acts, IsPositional)
    IN [i \in 1..Len(pos) |-> pos[i].dest]

\* parse_args(vec): out is "ok" with the options in ns, "exit0" when an
\* action made the parser exit, "exit2" for parser.error, "raise" for an
\* exception
ParseArgs(acts, files, vec) ==
    LET start == [i |-> 1, ns |-> InitNamespace(acts), pos |-> PositionalDests(acts),
                  extras |-> <<>>, seen |-> {}, out |-> "scan", fired |-> "none"]
        st == ParseScan(acts, files, vec, start)
    IN IF PyTrue \in RangeOf(vec) THEN [start EXCEPT !.out = "raise"]
       ELSE IF st.out # "scan" THEN st
       ELSE IF st.pos # <<>>
               \/ \E i \in 1..Len(acts) : /\ ~IsPositional(acts[i])
                                          /\ Truthy(acts[i].required)
                                          /\ i \notin st.seen
       THEN [st EXCEPT !.out = "exit2"]
       ELSE IF st.extras # <<>>
       THEN [st EXCEPT !.out = IF \E v \in RangeOf(st.extras) : NonStr(v)
                                THEN "raise" ELSE "exit2"]
       ELSE [st EXCEPT !.out = "ok"]

\* ------------------------------------------------------------------------
\* get_json_representation, save_input_meta, get_options_from_file
\* ------------------------------------------------------------------------
get_json_representation == [type |-> TYPE, parameters |-> _parameters]

\* json.dump of the registered parameters alone
InputMeta_parameters_only(acts, opts) ==
    [i \in 1..Len(_parameters) |->
        <<_parameters[i].name, JsonValue(opts[_parameters[i].name])>>]

\* json.dump(vars(options)): one key/value pair per attribute of the options
InputMeta(acts, opts) ==
    LET keys == DestOrder(acts, Len(acts))
    IN [i \in 1..Len(keys) |-> <<keys[i], JsonValue(opts[keys[i]])>>]

\* the vector get_options_from_file builds: each key followed by its value
OptionsVector(pairs) ==
    [i \in 1..(2 * Len(pairs)) |->
        IF i % 2 = 1 THEN pairs[(i + 1) \div 2][1] ELSE PyValue(pairs[i \div 2][2])]

\* ------------------------------------------------------------------------
\* launch
\* ------------------------------------------------------------------------
Terminate(how, step) ==
    /\ pc' = "exited"
    /\ status' = how
    /\ failed' = step

\* how a parse that did not yield options ends the process
ParseEnds(r, step) ==
    /\ Terminate(r.out, IF r.out = "exit0" THEN "none" ELSE step)
    /\ eager' = IF r.out = "exit0" /\ r.fired # "none" THEN Append(eager, r.fired) ELSE eager
    /\ descriptor' = IF r.out = "exit0" /\ r.fired \in {"JsonAction", "SaveJsonAction"}
                     THEN Append(descriptor, get_json_representation) ELSE descriptor

\* self.options = self.parse_args(vec)
parse_vector(vec, next, step) ==
    LET r == ParseArgs(_actions, fs, vec)
    IN /\ argv' = vec
       /\ events' = Append(events, "parse")
       /\ IF r.out = "ok"
          THEN /\ options' = r.ns
               /\ pc' = next
               /\ UNCHANGED <<status, failed, eager, descriptor>>
          ELSE /\ ParseEnds(r, step)
               /\ UNCHANGED options

\* self.options = self.parse_args(args), the vector drawn from tokens
parse_args(tokens, next, step) ==
    \E vec \in UNION {[1..n -> tokens] : n \in 0..MaxArgv} :
       parse_vector(vec, next, step)

\* save_input_meta() in a try block that swallows the exception of the write
save_input_meta_swallowing(next) ==
    /\ events' = Append(events, "save_input_meta")
    /\ pc' = next
    /\ fs' = IF DirWritable(options.outputdir)
             THEN [fs EXCEPT ![Join(options.outputdir, "input.meta.json")] =
                                 InputMeta(_actions, options)]
             ELSE fs
    /\ UNCHANGED <<status, failed>>

\* save_input_meta(): vars(options) dumped to <outputdir>/input.meta.json
save_input_meta(next) ==
    /\ events' = Append(events, "save_input_meta")
    /\ IF DirWritable(options.outputdir)
       THEN /\ fs' = [fs EXCEPT ![Join(options.outputdir, "input.meta.json")] =
                                     InputMeta(_actions, options)]
            /\ pc' = next
            /\ UNCHANGED <<status, failed>>
       ELSE /\ Terminate("raise", "save_input_meta")
            /\ UNCHANGED fs

\* self.options = self.get_options_from_file(file_path)
get_options_from_file(file_path, next) ==
    /\ events' = Append(events, "get_options_from_file")
    /\ IF ~FileExists(fs, file_path)
       THEN /\ Terminate("raise", "get_options_from_file")
            /\ UNCHANGED <<options, eager, descriptor>>
       ELSE LET r == ParseArgs(_actions, fs, OptionsVector(fs[file_path]))
            IN IF r.out = "ok"
               THEN /\ options' = r.ns
                    /\ pc' = next
                    /\ UNCHANGED <<status, failed, eager, descriptor>>
               ELSE /\ ParseEnds(r, "get_options_from_file")
                    /\ UNCHANGED options

\* save_output_meta(): OUTPUT_META_DICT dumped to <outputdir>/output.meta.json
save_output_meta(next, how) ==
    /\ events' = Append(events, "save_output_meta")
    /\ IF DirWritable(options.outputdir)
       THEN /\ fs' = [fs EXCEPT ![Join(options.outputdir, "output.meta.json")] =
                                     JsonDump(OUTPUT_META_DICT)]
            /\ pc' = next
            /\ status' = how
            /\ failed' = "none"
       ELSE /\ Terminate("raise", "save_output_meta")
            /\ UNCHANGED fs

\* the strings of the longer vectors: an output directory with the three
\* meta options
MetaTokens == {"d1", "nodir", "f1", "--inputmeta", "--saveinputmeta", "--saveoutputmeta"}

\* launch, line 449
Parse ==
    /\ pc = "start"
    /\ \/ parse_args(LaunchTokens, "parsed", "parse")
       \/ \E vec \in [1..(MaxArgv + 1) -> MetaTokens] : parse_vector(vec, "parsed", "parse")
    /\ UNCHANGED <<regVars, loaded, fs, ran>>

\* launch, lines 450-452
CaptureInputMeta ==
    /\ pc = "parsed"
    /\ IF Truthy(options.saveinputmeta)
       THEN save_input_meta("captured")
       ELSE /\ pc' = "captured"
            /\ UNCHANGED <<status, failed, fs, events>>
    /\ UNCHANGED <<regVars, loaded, argv, options, descriptor, eager, ran>>

\* launch without lines 453-455: run gets the options of the command line
SubstituteInputMeta_skipped ==
    /\ pc = "captured"
    /\ pc' = "substituted"
    /\ UNCHANGED <<status, failed, options, eager, descriptor, events>>
    /\ UNCHANGED <<regVars, loaded, argv, fs, ran>>

\* launch, lines 453-455
SubstituteInputMeta ==
    /\ pc = "captured"
    /\ IF Truthy(options.inputmeta)
       THEN get_options_from_file(options.inputmeta, "substituted")
       ELSE /\ pc' = "substituted"
            /\ UNCHANGED <<status, failed, options, eager, descriptor, events>>
    /\ UNCHANGED <<regVars, loaded, argv, fs, ran>>

\* launch, line 456: the plugin's run returns or raises
Run ==
    /\ pc = "substituted"
    /\ ran' = Append(ran, options)
    /\ events' = Append(events, "run")
    /\ \/ /\ pc' = "ran"
          /\ UNCHANGED <<status, failed>>
       \/ Terminate("raise", "run")
    /\ UNCHANGED <<regVars, loaded, argv, options, fs, descriptor, eager>>

\* launch with line 458 unconditional
PersistOutputMeta_always ==
    /\ pc = "ran"
    /\ save_output_meta("exited", "returned")
    /\ UNCHANGED <<regVars, loaded, argv, options, descriptor, eager, ran>>

\* launch, lines 457-459
PersistOutputMeta ==
    /\ pc = "ran"
    /\ IF Truthy(options.saveoutputmeta)
       THEN save_output_meta("exited", "returned")
       ELSE /\ Terminate("returned", "none")
            /\ UNCHANGED <<fs, events>>
    /\ UNCHANGED <<regVars, loaded, argv, options, descriptor, eager, ran>>

\* the plugin the launches are of: the two parameters of test_add_argument
SampleCalls ==
    << Call(<<"--dir">>, WithHelp(Kwargs("dir", PyTrue, "str", "./", Absent, PyTrue, Absent),
                                  "look up directory")),
       Call(<<"--flag">>, WithHelp(Kwargs("flag", PyTrue, "bool", PyFalse, Absent, PyTrue, Absent),
                                   "a boolean flag")) >>

SampleOutputMeta == << <<"out", "meta">> >>

\* what the file f1 holds when the process starts
MetaFiles ==
    { Missing,
      << <<"--saveoutputmeta", "d1">> >>,
      << <<"d1", "d1">> >>,
      << <<"--version", "d1">> >>,
      << <<"--saveoutputmeta", "true">> >> }

Init ==
    /\ \E type \in PluginTypes : Constructed(type, SampleCalls)
    /\ OUTPUT_META_DICT = SampleOutputMeta
    /\ call = NoCall
    /\ NotLaunched
    /\ \E meta \in MetaFiles : fs = [p \in FilePaths |-> IF p = "f1" THEN meta ELSE Missing]

Next == Parse \/ CaptureInputMeta \/ SubstituteInputMeta \/ Run \/ PersistOutputMeta

Spec == Init /\ [][Next]_vars

\* ------------------------------------------------------------------------
\* SpecApi: the methods called one by one, as the tests call them
\* ------------------------------------------------------------------------
ApiTokens == {"d1", "nodir", "--saveoutputmeta", "--flag", "--dir", "-b"}

\* self.app.options = self.app.parse_args([...])
ApiParse ==
    /\ pc = "start"
    /\ parse_args(ApiTokens, "parsed", "parse")
    /\ UNCHANGED <<regVars, loaded, fs, ran>>

\* self.app.save_input_meta()
ApiSaveInputMeta ==
    /\ pc = "parsed"
    /\ save_input_meta("saved")
    /\ UNCHANGED <<regVars, loaded, argv, options, descriptor, eager, ran>>

\* the written file loaded: get_options_from_file(<outputdir>/input.meta.json)
ApiGetOptions ==
    /\ pc = "saved"
    /\ get_options_from_file(Join(options.outputdir, "input.meta.json"), "loaded")
    /\ UNCHANGED <<regVars, loaded, argv, fs, ran>>

\* self.app.save_output_meta()
ApiSaveOutputMeta ==
    /\ pc = "parsed"
    /\ save_output_meta("metasaved", "active")
    /\ UNCHANGED <<regVars, loaded, argv, options, descriptor, eager, ran>>

\* load_output_meta(): <inputdir>/output.meta.json loaded; the options of a
\* plugin that is no 'ds' have no inputdir
load_output_meta ==
    /\ events' = Append(events, "load_output_meta")
    /\ IF TYPE = "ds" /\ FileExists(fs, Join(options.inputdir, "output.meta.json"))
       THEN /\ loaded' = JsonLoad(fs[Join(options.inputdir, "output.meta.json")])
            /\ pc' = "metaloaded"
            /\ UNCHANGED <<status, failed>>
       ELSE /\ Terminate("raise", "load_output_meta")
            /\ UNCHANGED loaded

\* output_meta_dict = self.app.load_output_meta()
ApiLoadOutputMeta ==
    /\ pc = "metasaved"
    /\ load_output_meta
    /\ UNCHANGED <<regVars, argv, options, fs, descriptor, eager, ran>>

NextApi ==
    \/ ApiParse
    \/ ApiSaveInputMeta
    \/ ApiGetOptions
    \/ ApiSaveOutputMeta
    \/ ApiLoadOutputMeta

\* the dicts a plugin declares: empty; strings; an int value; an int key; a
\* tuple value
OutputMetaDicts ==
    { <<>>,
      SampleOutputMeta,
      << <<"n", "int:1">> >>,
      << <<"int:1", "meta">> >>,
      << <<"t", "tuple:(a)">> >> }

\* what define_parameters registers: the two parameters of test_add_argument;
\* --flag with a second bool parameter of default True; the same two with
\* one dest
DefineParameters ==
    { SampleCalls,
      << Call(<<"--flag">>, Kwargs("flag", PyTrue, "bool", PyFalse, Absent, Absent, Absent)),
         Call(<<"-b", "--b">>, Kwargs("b", PyTrue, "bool", PyTrue, Absent, Absent, Absent)) >>,
      << Call(<<"--flag">>, Kwargs("flag", PyTrue, "bool", PyFalse, Absent, Absent, Absent)),
         Call(<<"-b", "--b">>, Kwargs("flag", PyTrue, "bool", PyTrue, Absent, Absent, Absent)) >> }

InitApi ==
    /\ \E type \in PluginTypes : \E calls \in DefineParameters : Constructed(type, calls)
    /\ OUTPUT_META_DICT \in OutputMetaDicts
    /\ call = NoCall
    /\ NotLaunched
    /\ fs = [p \in FilePaths |-> Missing]

SpecApi == InitApi /\ [][NextApi]_vars

\* ------------------------------------------------------------------------
\* Properties of the parameter registry (SpecReg, SpecCall)
\* ------------------------------------------------------------------------
Optional(p) == Truthy(p.optional)

\* C1: whatever add_argument calls were made, returning or raising, every
\* record of the registry has a supported type; an optional one has a
\* non-null default and no path type; a mandatory one is exposed to the UI.
C1_RegistryRecordsValid ==
    \A i \in 1..Len(_parameters) :
       LET p == _parameters[i]
       IN /\ p.type \in {"str", "int", "float", "bool", "path", "unextpath"}
          /\ Optional(p) => (p.default # PyNone /\ p.type \notin {"path", "unextpath"})
          /\ ~Optional(p) => p.ui_exposed = PyTrue

\* a registry holding an optional and a mandatory record, the last call
\* having raised
C1_Witness ==
    /\ raised # NoError
    /\ \E i, j \in 1..Len(_parameters) :
          /\ i > Len(InitCalls(TYPE)) /\ j > Len(InitCalls(TYPE))
          /\ Optional(_parameters[i]) /\ ~Optional(_parameters[j])

\* C6: the 'parameters' of the descriptor are the parameters of the calls
\* that returned, in the order of the calls, and those of a 'ts' plugin start
\* with plugininstances, filter, extractpaths.
C6_DescriptorOrder ==
    /\ get_json_representation.parameters = succeeded
    /\ TYPE = "ts" =>
         /\ Len(get_json_representation.parameters) >= 3
         /\ get_json_representation.parameters[1].name = "plugininstances"
         /\ get_json_representation.parameters[2].name = "filter"
         /\ get_json_representation.parameters[3].name = "extractpaths"

\* C7: no two records of the registry have the same name; stated of the
\* registries that hold the parameters of returned calls only.
C7_NamesUnique ==
    _parameters = succeeded =>
       \A i, j \in 1..Len(_parameters) :
          i # j => _parameters[i].name # _parameters[j].name

\* the call of SpecCall registers a parameter: dest and type are given and
\* the action is not 'help'
Registering ==
    /\ pc = "called"
    /\ call.kwargs.action = Absent
    /\ call.kwargs.dest # Absent
    /\ call.kwargs.type # Absent

\* C8 as stated: optional=true without a default raises the KeyError 'A
\* default value is required' and optional=true with default=None raises the
\* ValueError 'Default value cannot be None', whatever the type, ui_exposed
\* and required.
C8_Original ==
    Registering /\ call.kwargs.optional = PyTrue =>
       /\ call.kwargs.default = Absent => raised = ErrDefaultRequired
       /\ call.kwargs.default = PyNone => raised = ErrDefaultNone

\* C8 amended: the same for the types str, int, float and bool when
\* required is not given or false; whatever ui_exposed is.
C8_InvalidDefault ==
    Registering /\ call.kwargs.optional = PyTrue
      /\ call.kwargs.type \in {"str", "int", "float", "bool"}
      /\ call.kwargs.required \in {Absent, PyFalse} =>
       /\ call.kwargs.default = Absent => raised = ErrDefaultRequired
       /\ call.kwargs.default = PyNone => raised = ErrDefaultNone

\* an optional bool hidden from the UI, default None, was rejected for its default
C8_Witness ==
    /\ Registering
    /\ call.kwargs.optional = PyTrue
    /\ call.kwargs.type = "bool"
    /\ call.kwargs.default = PyNone
    /\ call.kwargs.ui_exposed = PyFalse
    /\ call.kwargs.required = PyFalse
    /\ raised = ErrDefaultNone
    /\ _parameters = RegistryOf(<<>>, InitCalls(TYPE), Len(InitCalls(TYPE)))

\* C9 as stated: a path or unextpath parameter with optional=true raises
\* 'Parameters of type path or unextpath cannot be optional', whatever the
\* default, ui_exposed and required.
C9_Original ==
    Registering /\ call.kwargs.optional = PyTrue
      /\ call.kwargs.type \in {"path", "unextpath"} =>
       raised = ErrPathOptional

\* C9 amended: the same when required is not given or false.
C9_PathOptional ==
    Registering /\ call.kwargs.optional = PyTrue
      /\ call.kwargs.type \in {"path", "unextpath"}
      /\ call.kwargs.required \in {Absent, PyFalse} =>
       raised = ErrPathOptional

\* an optional unextpath without a default was rejected for its type
C9_Witness ==
    /\ Registering
    /\ call.kwargs.optional = PyTrue
    /\ call.kwargs.type = "unextpath"
    /\ call.kwargs.default = Absent
    /\ call.kwargs.required = Absent
    /\ raised = ErrPathOptional

\* ------------------------------------------------------------------------
\* Properties of launch (Spec, SpecApi)
\* ------------------------------------------------------------------------
\* what parse_args makes of the argument vector of the launch
CommandLine == ParseArgs(_actions, fs, argv)

\* what a file holds, nothing where there is no file
Content(files, p) == IF p \in FilePaths THEN files[p] ELSE Missing

\* what parse_args makes of the vector get_options_from_file builds from a file
ReParsed(p) == ParseArgs(_actions, fs, OptionsVector(Content(fs, p)))

MetaPaths == {"d1/input.meta.json", "input.meta.json",
              "d1/output.meta.json", "output.meta.json"}
OutputMetaPaths == {"d1/output.meta.json", "output.meta.json"}

\* the launch is over, the command line was parsed, nothing made the
\* process exit with status 0 and neither meta step before run failed
NoFailureBeforeRun ==
    /\ pc = "exited"
    /\ status # "exit0"
    /\ failed \notin {"save_input_meta", "get_options_from_file"}
    /\ CommandLine.out = "ok"

\* C2 as stated: a launch that parses, makes no eager exit and has no failing
\* meta step invokes run exactly once, with the options re-parsed from the
\* input-meta file when --inputmeta was given on the command line and with
\* the options of the command line otherwise.
C2_Original ==
    /\ Len(ran) <= 1
    /\ NoFailureBeforeRun =>
         ran = << IF CommandLine.ns.inputmeta # PyNone
                  THEN ReParsed(CommandLine.ns.inputmeta).ns
                  ELSE CommandLine.ns >>

\* C2 amended: the same, the options being those re-parsed from the
\* input-meta file when --inputmeta was given a non-empty path, and those of
\* the command line when it was not given or given the empty string.
C2_RunOnceWithFinalOptions ==
    /\ Len(ran) <= 1
    /\ NoFailureBeforeRun =>
         ran = << IF CommandLine.ns.inputmeta \notin {PyNone, ""}
                  THEN ReParsed(CommandLine.ns.inputmeta).ns
                  ELSE CommandLine.ns >>

\* a launch that returned after run got options re-parsed from the file f1,
\* which differ from those of the command line
C2_Witness ==
    /\ pc = "exited"
    /\ status = "returned"
    /\ CommandLine.ns.inputmeta = "f1"
    /\ Len(ran) = 1
    /\ ran[1] = ReParsed("f1").ns
    /\ ran[1] # CommandLine.ns

\* C3: after save_input_meta wrote the options parsed from a vector, loading
\* the written file with get_options_from_file yields those options again.
C3_InputMetaRoundTrip ==
    (/\ Len(events) = 3
     /\ events[2] = "save_input_meta"
     /\ events[3] = "get_options_from_file") =>
       /\ pc = "loaded"
       /\ options = CommandLine.ns

EagerFlags == {"--json", "--savejson", "--version", "--meta", "--man"}

EagerActionOf(t) ==
    CASE t = "--json" -> "JsonAction"
      [] t = "--savejson" -> "SaveJsonAction"
      [] t = "--version" -> "VersionAction"
      [] t = "--meta" -> "AppMetaDataAction"
      [] t = "--man" -> "ManPageAction"

HasEagerFlag(vec) == \E k \in 1..Len(vec) : vec[k] \in EagerFlags

FirstEager(vec) ==
    CHOOSE k \in 1..Len(vec) :
       /\ vec[k] \in EagerFlags
       /\ \A j \in 1..(k - 1) : vec[j] \notin EagerFlags

\* the string is an option of the parser that takes a value
TakesValue(t) ==
    /\ t \in OptionStrings(_actions)
    /\ ActionOf(_actions, t).action \in {"store", "SaveJsonAction"}

\* the string after position i is a value the option at i accepts
ValueFollows(vec, i) ==
    /\ i < Len(vec)
    /\ ~StartsWithDash(vec[i + 1])
    /\ ConvertError(fs, ActionOf(_actions, vec[i]).type, vec[i + 1]) = "ok"

\* the flag at position k did its one action and the process ended with
\* status 0 at once
FiredAlone(vec, k) ==
    /\ pc = "exited"
    /\ status = "exit0"
    /\ eager = << EagerActionOf(vec[k]) >>
    /\ events = << "parse" >>
    /\ descriptor = IF vec[k] \in {"--json", "--savejson"}
                    THEN << get_json_representation >> ELSE << >>

NeitherRunNorMeta ==
    /\ ran = << >>
    /\ \A p \in MetaPaths : fs[p] = Missing

RunReturned ==
    /\ ran # << >>
    /\ pc \in {"ran", "exited"}
    /\ failed # "run"

OutputMetaUnwritten == \A p \in OutputMetaPaths : fs[p] = Missing

\* C5 as stated: when the command line sets --saveoutputmeta and run
\* returned, OUTPUT_META_DICT is in <outputdir>/output.meta.json at the end
\* of the launch; when the command line does not set it the file is never
\* written; and the file is never written before run returned.
C5_Original ==
    /\ (/\ pc = "exited"
        /\ RunReturned
        /\ Truthy(CommandLine.ns.saveoutputmeta)) =>
         Content(fs, Join(ran[1].outputdir, "output.meta.json")) = OUTPUT_META_DICT
    /\ ~(CommandLine.out = "ok" /\ Truthy(CommandLine.ns.saveoutputmeta)) =>
         OutputMetaUnwritten
    /\ ~OutputMetaUnwritten => RunReturned

\* C5 amended: the flag and the directory are those of the options run
\* received (the re-parsed ones when an input-meta file was loaded). When
\* run returned and these options set saveoutputmeta, OUTPUT_META_DICT is
\* in <outputdir>/output.meta.json at the end of the launch if outputdir is
\* a writable directory, and the launch ends with the exception of the
\* write if it is not; when they do not set it, or run was not invoked or
\* raised, the file is never written; and it is never written before run
\* returned.
C5_OutputMetaAfterRun ==
    /\ (/\ pc = "exited"
        /\ RunReturned
        /\ Truthy(ran[1].saveoutputmeta)) =>
         IF DirWritable(ran[1].outputdir)
         THEN /\ status = "returned"
              /\ Content(fs, Join(ran[1].outputdir, "output.meta.json")) = OUTPUT_META_DICT
         ELSE /\ status = "raise"
              /\ failed = "save_output_meta"
              /\ OutputMetaUnwritten
    /\ ~(RunReturned /\ Truthy(ran[1].saveoutputmeta)) => OutputMetaUnwritten
    /\ ~OutputMetaUnwritten => (RunReturned /\ pc = "exited")

\* a launch whose command line did not set --saveoutputmeta, the loaded
\* input-meta file did: the file was written after run returned
C5_Witness ==
    /\ pc = "exited"
    /\ status = "returned"
    /\ CommandLine.out = "ok"
    /\ CommandLine.ns.saveoutputmeta = PyFalse
    /\ "get_options_from_file" \in RangeOf(events)
    /\ Len(ran) = 1
    /\ ran[1].saveoutputmeta = PyTrue
    /\ fs["d1/output.meta.json"] = OUTPUT_META_DICT

RequiredPositionals(type) ==
    IF type = "ds" THEN << "inputdir", "outputdir" >> ELSE << "outputdir" >>

\* the strings of the vector that are positionals: no option strings and
\* not the value of an option before them
PositionalCount(vec) ==
    Cardinality({ i \in 1..Len(vec) :
                     /\ ~StartsWithDash(vec[i])
                     /\ i = 1 \/ ~TakesValue(vec[i - 1]) })

FlagGiven(p, vec) == p.flag \in RangeOf(vec) \/ p.short_flag \in RangeOf(vec)

\* the parsed value of every bool parameter with a default of True or False
\* is the default without its flag and the negation with it, and that of
\* every other optional parameter without its flag is its default
TogglesAndDefaults(params) ==
    \A i \in 1..Len(params) :
       LET p == params[i]
       IN /\ (p.type = "bool" /\ p.default \in {PyTrue, PyFalse}) =>
               options[p.name] = IF FlagGiven(p, argv) THEN PyNot(p.default) ELSE p.default
          /\ (p.type # "bool" /\ Optional(p) /\ ~FlagGiven(p, argv)) =>
               options[p.name] = p.default

\* C11: after a successful parse, every registered bool parameter with
\* default d in {False, True} has the value d when its flag is not in the
\* vector and the negation of d when it is, and every other registered
\* optional parameter whose flag is not in the vector has its default.
C11_BoolToggle ==
    pc = "parsed" => TogglesAndDefaults(_parameters)

\* the same for the plugins whose parameters have different names: holds
C11_BoolToggleUniqueNames ==
    (/\ pc = "parsed"
     /\ \A i, j \in 1..Len(_parameters) :
           i # j => _parameters[i].name # _parameters[j].name) =>
       TogglesAndDefaults(_parameters)

\* ------------------------------------------------------------------------
\* Properties of input.meta.json (Spec)
\* ------------------------------------------------------------------------
ControlFlags == {"json", "savejson", "inputmeta", "saveinputmeta", "saveoutputmeta",
                 "version", "meta", "verbosity", "man"}

\* the keys input.meta.json is to have
InputMetaKeys ==
    {_parameters[i].name : i \in 1..Len(_parameters)}
       \cup RangeOf(RequiredPositionals(TYPE)) \cup ControlFlags

\* the file is a flat mapping of the options with exactly the keys
HoldsOptions(file, opts, keys) ==
    /\ Len(file) = Cardinality(keys)
    /\ {file[i][1] : i \in 1..Len(file)} = keys
    /\ \A i \in 1..Len(file) : file[i][2] = JsonValue(opts[file[i][1]])

\* the command line, which holds --saveinputmeta, was parsed with
\* saveinputmeta set and the capture step is over
CaptureDue ==
    /\ pc \notin {"start", "parsed"}
    /\ "--saveinputmeta" \in RangeOf(argv)
    /\ CommandLine.out = "ok"
    /\ Truthy(CommandLine.ns.saveinputmeta)

InputMetaPath == Join(CommandLine.ns.outputdir, "input.meta.json")

\* C12 as stated: with --saveinputmeta set, from the capture step on and
\* through any substitution <outputdir>/input.meta.json holds the options
\* of the command line, one entry for every registered parameter, positional
\* and control flag, and no file is loaded before the capture.
C12_Original ==
    CaptureDue =>
       /\ HoldsOptions(Content(fs, InputMetaPath), CommandLine.ns, InputMetaKeys)
       /\ "get_options_from_file" \in RangeOf(events) => events[2] = "save_input_meta"

\* C12 amended: the same when outputdir is a writable directory; when it is
\* not, the launch ends with the exception of the write, nothing is written,
\* no file is loaded and run is not invoked.
C12_InputMetaCaptured ==
    CaptureDue =>
       IF DirWritable(CommandLine.ns.outputdir)
       THEN /\ HoldsOptions(Content(fs, InputMetaPath), CommandLine.ns, InputMetaKeys)
            /\ "get_options_from_file" \in RangeOf(events) => events[2] = "save_input_meta"
       ELSE /\ pc = "exited"
            /\ status = "raise"
            /\ failed = "save_input_meta"
            /\ events = << "parse", "save_input_meta" >>
            /\ ran = << >>
            /\ \A p \in MetaPaths : fs[p] = Missing

\* a launch with --saveinputmeta and --inputmeta f1 that returned: run got
\* the options of f1, the written file holds those of the command line
C12_Witness ==
    /\ pc = "exited"
    /\ status = "returned"
    /\ CaptureDue
    /\ CommandLine.ns.inputmeta = "f1"
    /\ Len(ran) = 1
    /\ ran[1] # CommandLine.ns
    /\ HoldsOptions(fs["d1/input.meta.json"], CommandLine.ns, InputMetaKeys)

\* ------------------------------------------------------------------------
\* Properties of output.meta.json (SpecApi)
\* ------------------------------------------------------------------------
\* save_output_meta and load_output_meta were called in this order on
\* options whose inputdir and outputdir are the same directory, and the save
\* returned
SavedThenLoaded ==
    /\ TYPE = "ds"
    /\ events = << "parse", "save_output_meta", "load_output_meta" >>
    /\ options.inputdir = options.outputdir

\* every key of the dict is a string and every value a string, a number, a
\* bool, None or a list
JsonFaithful(d) ==
    \A i \in 1..Len(d) :
       /\ d[i][1] \notin PyInts \cup {PyTrue, PyFalse, PyNone}
       /\ d[i][2] \notin PyTuples

\* C13 as stated: for any OUTPUT_META_DICT, load_output_meta after
\* save_output_meta in the same directory returns a structure equal to
\* OUTPUT_META_DICT, and no step changes OUTPUT_META_DICT.
C13_Original ==
    /\ [](SavedThenLoaded => (pc = "metaloaded" /\ loaded = OUTPUT_META_DICT))
    /\ [][OUTPUT_META_DICT' = OUTPUT_META_DICT]_vars

\* C13 amended: the same for every OUTPUT_META_DICT whose keys are strings
\* and whose values are strings, numbers, bools, None or lists.
C13_OutputMetaRoundTrip ==
    /\ [](SavedThenLoaded /\ JsonFaithful(OUTPUT_META_DICT) =>
             (pc = "metaloaded" /\ loaded = OUTPUT_META_DICT))
    /\ [][OUTPUT_META_DICT' = OUTPUT_META_DICT]_vars

\* the dict with an int value saved to d1 and loaded from d1
C13_Witness ==
    /\ SavedThenLoaded
    /\ options.outputdir = "d1"
    /\ OUTPUT_META_DICT = << <<"n", "int:1">> >>
    /\ fs["d1/output.meta.json"] = << <<"n", "num:1">> >>
    /\ loaded = OUTPUT_META_DICT

\* ------------------------------------------------------------------------
\* Properties of the stored default (SpecCall)
\* ------------------------------------------------------------------------
\* the call of SpecCall stored a record, the last of the registry
Stored ==
    /\ Registering
    /\ Len(_parameters) = Len(InitCalls(TYPE)) + 1

\* C14 as stated: the default of a record of the registry is non-null if
\* and only if the parameter is optional; stated of the registries that
\* hold the parameters of returned calls only.
C14_Original ==
    _parameters = succeeded =>
       \A i \in 1..Len(_parameters) :
          (_parameters[i].default # PyNone) <=> Optional(_parameters[i])

\* C14 amended: an optional record always has a non-null default; a
\* mandatory record has the default its call gave, null when it gave none.
C14_DefaultOfRecord ==
    /\ \A i \in 1..Len(_parameters) :
          Optional(_parameters[i]) => _parameters[i].default # PyNone
    /\ Stored =>
         LET p == _parameters[Len(_parameters)]
         IN p.default = IF call.kwargs.default = Absent THEN PyNone
                        ELSE call.kwargs.default

\* a mandatory parameter registered with the default True, the call returned
C14_Witness ==
    /\ Stored
    /\ raised = NoError
    /\ call.kwargs.optional = PyFalse
    /\ call.kwargs.default = PyTrue
    /\ ~Optional(_parameters[Len(_parameters)])
    /\ _parameters[Len(_parameters)].default = PyTrue

\* ------------------------------------------------------------------------
\* launch as one linear pass (Spec)
\* ------------------------------------------------------------------------
StepRank(e) ==
    CASE e = "parse" -> 1
      [] e = "save_input_meta" -> 2
      [] e = "get_options_from_file" -> 3
      [] e = "run" -> 4
      [] e = "save_output_meta" -> 5

\* the steps performed so far: each at most once, in the order of launch
InOrderOnce ==
    \A i, j \in 1..Len(events) :
       i < j => StepRank(events[i]) < StepRank(events[j])

\* a step before run fails in this launch: the command line is rejected,
\* input.meta.json cannot be written, or the input-meta file cannot be read
\* or its re-parse is rejected
FailsBeforeRun ==
    \/ CommandLine.out \in {"exit2", "raise"}
    \/ /\ CommandLine.out = "ok"
       /\ \/ Truthy(CommandLine.ns.saveinputmeta) /\ ~DirWritable(CommandLine.ns.outputdir)
          \/ /\ Truthy(CommandLine.ns.inputmeta)
             /\ \/ ~FileExists(fs, CommandLine.ns.inputmeta)
                \/ ReParsed(CommandLine.ns.inputmeta).out \in {"exit2", "raise"}

\* the step that failed is the last one performed and the launch is over
TerminalOnFailure ==
    failed # "none" =>
       /\ pc = "exited"
       /\ status \in {"exit2", "raise"}
       /\ events # << >>
       /\ events[Len(events)] = failed

\* C15: the steps of launch are performed at most once each and in the
\* order parse, input-meta capture, input-meta substitution, run,
\* output-meta persistence; a step that fails is the last step performed;
\* run is not invoked in a launch in which an earlier step fails;
\* output.meta.json is not written when run raised; and nothing happens
\* once the launch is over.
C15_LinearPass ==
    /\ [](/\ InOrderOnce
          /\ TerminalOnFailure
          /\ ran # << >> => ~FailsBeforeRun
          /\ failed = "run" => (OutputMetaUnwritten /\ events[Len(events)] = "run"))
    /\ [][pc # "exited"]_vars

\* a launch that wrote input.meta.json and then could not read the
\* input-meta file: it ended there, run not invoked
C15_Witness ==
    /\ events = << "parse", "save_input_meta", "get_options_from_file" >>
    /\ pc = "exited"
    /\ status = "raise"
    /\ failed = "get_options_from_file"
    /\ fs["d1/input.meta.json"] # Missing
    /\ ran = << >>

\* ------------------------------------------------------------------------
\* add_argument calls that raise (SpecReg)
\* ------------------------------------------------------------------------
\* C16: an add_argument call that raises, be it in
\* validate_argument_options or in the underlying parser, leaves the
\* parameter registry as it was before the call.
C16_RaisingCallKeepsRegistry ==
    [][raised' # NoError => _parameters' = _parameters]_vars
====
